---- MODULE Spec2Model ----
(***************************************************************************)
(* codex-auth-manager: the account store (src/src/utils/storage.ts, the    *)
(* per-account credential variant at lines 241-539), the profile parser    *)
(* (src/src/utils/jwt.ts) and the UI store that drives them                *)
(* (src/src/stores/useAccountStore.ts).                                    *)
(*                                                                         *)
(* Spec   : the storage API called one operation at a time on a fresh      *)
(*          installation, every backend call succeeding.                   *)
(* SpecUI : the UI store's actions, one at a time; the only backend call   *)
(*          allowed to reject is delete_account_auth.                      *)
(* SpecSteps : Spec with switchToAccount taken one backend call at a time, *)
(*          its final save allowed to reject.                              *)
(* SpecLoad : loadAccountsStore on a store file left by the earlier        *)
(*          version (secrets embedded in the records), on a damaged file   *)
(*          and on a missing one.                                          *)
(* SpecIds : Spec with generateId free to return an id already in use.     *)
(* SpecHook : the useAutoRefresh hook over the UI store: the interval      *)
(*          timer, refreshAllUsage and refreshSingleAccount.               *)
(* SpecRank : the match ranker of the specification applied to pairs of    *)
(*          identities.                                                    *)
(* SpecRace : addAccount and updateUsage of the UI store overlapping at    *)
(*          their await points.                                            *)
(* SpecIO : the UI store's calls one at a time, addAccount and             *)
(*          removeAccount taken one backend call at a time, any of which   *)
(*          may reject.                                                    *)
(***************************************************************************)
EXTENDS Integers, Sequences, FiniteSets, TLC

\* ---------------------------------------------------------------- bounds
MaxAccounts == 2      \* how many ids generateId hands out
MaxStarted == 3       \* how many storage calls are followed step by step
MaxClock    == 1      \* how far the wall clock advances

\* ---------------------------------------------------------------- values
Null == 0             \* null account id (ids are 1..MaxAccounts)
NoIdent == ""         \* null / undefined / '' account identifier (all falsy)

AccountIdValues == {"A1", "A2"}
UserIdValues    == {"U1", "U2"}
EmailValues     == {"x@y.com"}

\* An id_token that does not decode, or decodes without the OpenAI auth claim.
BadJwt == [ok |-> FALSE, acct |-> "", user |-> "", email |-> ""]

\* Decodable id_tokens: the chatgpt_account_id, chatgpt_user_id and email
\* claims (the account id and the email may be missing).
GoodJwts ==
  {[ok |-> TRUE, acct |-> a, user |-> u, email |-> e] :
      a \in AccountIdValues \cup {""}, u \in UserIdValues, e \in EmailValues \cup {""}}

\* CodexAuthConfig: tokens.account_id and tokens.id_token.
CodexAuthConfig ==
  [tok : AccountIdValues \cup {""}, jwt : GoodJwts \cup {BadJwt}]

\* Credentials the model feeds to addAccount and to the external login:
\* <<tokens.account_id, chatgpt_account_id, chatgpt_user_id, email>> of the
\* decodable ones, and one whose id_token does not decode.
CredShapes ==
  { <<"A1", "A1", "U1", "">>,          \* account A1, user U1
    <<"A1", "A1", "U1", "x@y.com">>,   \* the same with an email
    <<"A1", "A1", "U2", "x@y.com">>,   \* same account id, other user, email
    <<"",   "A2", "U2", "">>,          \* no tokens.account_id
    <<"A2", "A1", "U1", "">> }         \* tokens.account_id differs from claim

Creds ==
  {c \in CodexAuthConfig :
      \/ c.jwt = BadJwt /\ c.tok = ""
      \/ c.jwt.ok /\ <<c.tok, c.jwt.acct, c.jwt.user, c.jwt.email>> \in CredShapes}

NoSecret == [has |-> FALSE, cred |-> [tok |-> "", jwt |-> BadJwt]]
Secret(c) == [has |-> TRUE, cred |-> c]

Ids == 1..MaxAccounts

VARIABLES
  storeExists,      \* the accounts store file exists on disk
  accounts,         \* accounts array of the persisted store
  authStore,        \* per-account secrets kept by the backend, by account id
  codexAuth,        \* the CLI's .codex/auth.json
  nextId,           \* ids handed out so far + 1
  clock,            \* wall clock
  last,             \* the last storage operation and what it returned
  uiAccounts,       \* useAccountStore.accounts
  activeAccountId,  \* useAccountStore.activeAccountId
  hasLoaded,        \* loadAccounts has run
  storeFault,       \* how the store file reads: "none", "malformed", "ioerror"
  embedded,         \* authConfig embedded in the persisted record, by id
  returned,         \* the store the last loadAccountsStore call returned
  autoRefreshInterval,  \* useAccountStore.config.autoRefreshInterval (minutes)
  intervalRef,      \* minutes of the live setInterval timer of useAutoRefresh, 0 if none
  hasCleanup,       \* the last run of the timer effect returned a cleanup
  isRefreshingRef,  \* isRefreshingRef.current of useAutoRefresh
  running,          \* the refreshAllUsage / refreshSingleAccount runs past their guard
  usage,            \* usageInfo of the persisted record, by id (0: none)
  rankArgs,         \* the two identities handed to the match ranker
  rankResult,       \* what the ranker returned for them
  calls,            \* the storage calls in flight, by slot
  defaultStore,     \* accounts (and their usageInfo) of DEFAULT_STORE
  started           \* how many step-wise storage calls were started

vars == <<storeExists, accounts, authStore, codexAuth, nextId, clock, last,
          uiAccounts, activeAccountId, hasLoaded, storeFault, embedded,
          returned, autoRefreshInterval, intervalRef, hasCleanup,
          isRefreshingRef, running, usage, rankArgs, rankResult,
          calls, defaultStore, started>>
diskVars == <<storeExists, accounts, authStore, codexAuth, nextId>>
uiVars == <<uiAccounts, activeAccountId, hasLoaded>>
loadVars == <<storeFault, embedded, returned>>
timerVars == <<intervalRef, hasCleanup>>
refreshVars == <<isRefreshingRef, running>>
hookVars == <<autoRefreshInterval, timerVars, refreshVars>>
\* What the storage API and the environment leave alone, and what the UI
\* store's account actions leave alone (they re-run the timer effect).
rankVars == <<rankArgs, rankResult>>
raceVars == <<calls, defaultStore, started>>
sideVars == <<rankVars, raceVars>>
restVars == <<hookVars, usage, sideVars>>
uiRestVars == <<autoRefreshInterval, refreshVars, usage, sideVars>>

\* ------------------------------------------------------- jwt.ts helpers

\* parseAccountInfo: the profile read from the id_token (defined when the
\* token decodes); falsy claims fall back as in the source.
parseAccountInfo(c) ==
  [email     |-> IF c.jwt.email # "" THEN c.jwt.email ELSE "Unknown",
   accountId |-> IF c.jwt.acct # "" THEN c.jwt.acct ELSE c.tok,
   userId    |-> c.jwt.user]

\* parseAccountInfo throws when decodeJWTPayload throws or the auth claim is
\* missing.
parseThrows(c) == ~c.jwt.ok

\* The Error that escapes parseAccountInfo: 'Invalid JWT token' from
\* decodeJWTPayload (or its sibling 'Missing OpenAI auth data in token' when
\* the token decodes without the auth claim).
InvalidJwtError == "Invalid JWT token"

\* generateId in Spec and SpecUI: an id not handed out before.
generateId == nextId

\* --------------------------------------------------- storage.ts helpers

\* loadAccountsStore().accounts: the parsed file, or DEFAULT_STORE.accounts
\* when the backend reports 'Store file not found'.  Every operation that
\* changes the default array saves the file before it returns, so the
\* default array is empty whenever it is handed out.  This is the call as the
\* storage operations of Spec, SpecUI, SpecSteps and SpecIds see it: there
\* the file is readable and embeds no secret, so the call neither throws nor
\* migrates; loadAccountsStoreCall below is the whole function.
loadAccountsStore == IF storeExists THEN accounts ELSE <<>>

\* Array.prototype.findIndex: first index satisfying the test, 0 if none.
FindIndex(s, Test(_)) ==
  IF \E i \in 1..Len(s) : Test(s[i])
    THEN CHOOSE i \in 1..Len(s) : Test(s[i]) /\ \A j \in 1..(i - 1) : ~Test(s[j])
    ELSE 0

ActiveIds(s) == {i \in 1..Len(s) : s[i].isActive}
IdsOf(s) == {s[i].id : i \in 1..Len(s)}

\* Marks an exception that escapes a function returning an identifier.
Thrown == "<thrown>"

\* getCurrentAuthAccountId without its catch block: it would let a rejected
\* read_codex_auth, a JSON.parse error or a decode error escape.
getCurrentAuthAccountId_noCatch ==
  IF codexAuth.st # "ok" THEN Thrown
  ELSE IF codexAuth.cred.tok # "" THEN codexAuth.cred.tok
  ELSE IF parseThrows(codexAuth.cred) THEN Thrown
  ELSE parseAccountInfo(codexAuth.cred).accountId

\* getCurrentAuthAccountId: tokens.account_id first, then the account id of
\* the decoded id_token; any read, parse or decode failure is caught and
\* yields null.
getCurrentAuthAccountId ==
  IF codexAuth.st # "ok" THEN NoIdent
  ELSE IF codexAuth.cred.tok # "" THEN codexAuth.cred.tok
  ELSE IF parseThrows(codexAuth.cred) THEN NoIdent
  ELSE parseAccountInfo(codexAuth.cred).accountId

\* No persisted record embeds a secret (the format this version writes).
NoEmbedded == [i \in Ids |-> NoSecret]

\* Value of `returned` before any loadAccountsStore call has returned, and the
\* accounts of DEFAULT_STORE.
NothingReturned == [accts |-> <<>>, emb |-> NoEmbedded]

\* An AccountIdentity after normalization: "" stands for null.
NoIdentity == [accountId |-> "", userId |-> "", email |-> ""]

\* Value of rankResult before the ranker has been applied to rankArgs.
NoRank == [ab |-> -1, ba |-> -1, aa |-> -1]

\* A StoredAccount is modelled by its id, the identity fields of its
\* accountInfo, isActive and updatedAt; alias, createdAt, usageInfo and the
\* plan fields are carried along by every operation modelled here and are
\* left out.
NoAccount ==
  [id |-> Null, accountInfo |-> [email |-> "Unknown", accountId |-> "", userId |-> ""],
   isActive |-> FALSE, updatedAt |-> 0]

\* The accounts of a store object together with their usageInfo.
EmptyStore == [accts |-> <<>>, usage |-> [i \in Ids |-> 0]]

\* The storage calls that may be in flight together.
Slots == {"first", "second"}

\* A slot with no call in flight.
IdleCall ==
  [op |-> "idle", pc |-> "idle", arg |-> NoSecret.cred, id |-> Null,
   alias |-> FALSE, snap |-> EmptyStore, rec |-> NoAccount, idx |-> 0,
   data |-> EmptyStore]

\* config.autoRefreshInterval of a fresh UI store, and the values the
\* settings slider (0..60 in steps of 5) is moved between in the model.
DefaultInterval == 10
IntervalValues == {0, DefaultInterval}

Init ==
  /\ storeExists = FALSE
  /\ accounts = <<>>
  /\ authStore = [i \in Ids |-> NoSecret]
  /\ codexAuth = [st |-> "absent", cred |-> NoSecret.cred]
  /\ nextId = 1
  /\ clock = 0
  /\ last = [op |-> "none", ok |-> TRUE, ret |-> Null, saved |-> FALSE,
             arg |-> NoSecret.cred, id |-> Null, kind |-> "none",
             cur |-> NoIdent, rep |-> FALSE]
  /\ uiAccounts = <<>>
  /\ activeAccountId = Null
  /\ hasLoaded = FALSE
  /\ storeFault = "none"
  /\ embedded = NoEmbedded
  /\ returned = NothingReturned
  /\ autoRefreshInterval = DefaultInterval
  /\ intervalRef = 0
  /\ hasCleanup = FALSE
  /\ isRefreshingRef = FALSE
  /\ running = <<>>
  /\ usage = [i \in Ids |-> 0]
  /\ rankArgs = <<NoIdentity, NoIdentity>>
  /\ rankResult = NoRank
  /\ calls = [k \in Slots |-> IdleCall]
  /\ defaultStore = EmptyStore
  /\ started = 0

\* ------------------------------------------------------ storage.ts API
\* Each operation is described by its effect on the loaded store: whether it
\* returned (ok) or threw, its return value, the accounts array it saved (if
\* it saved), and the secrets it left in the backend.

\* saveAccountAuth / deleteAccountAuth: the backend's per-account secret files.
saveAccountAuth(accountId, c) ==
  [i \in Ids |-> IF i = accountId THEN Secret(c) ELSE authStore[i]]

\* Faulty variant: the secret is left behind (the earlier removeAccount at
\* storage.ts 93-97 deleted nothing).
deleteAccountAuth_skip(accountId) == authStore

deleteAccountAuth(accountId) ==
  [i \in Ids |-> IF i = accountId THEN NoSecret ELSE authStore[i]]

\* Faulty variant: the lookup never finds the account.
IsExisting_never(acc, accountInfo) == FALSE

\* The findIndex test of addAccount: same profile account id.
IsExisting(acc, accountInfo) ==
  acc.accountInfo.accountId = accountInfo.accountId

\* Faulty variant: every new account is activated.
FirstAccountActive_always(store) == TRUE

\* Faulty variant: no new account is activated.
FirstAccountActive_never(store) == FALSE

\* isActive of a new account: the first account is activated.
FirstAccountActive(store) == Len(store) = 0

\* Faulty variant: the merge keeps the old profile.
MergedAccount_keepInfo(existingAccount, accountInfo, now) ==
  [existingAccount EXCEPT !.updatedAt = now]

\* The record a merge writes over the existing one.
MergedAccount(existingAccount, accountInfo, now) ==
  [existingAccount EXCEPT !.accountInfo = accountInfo, !.updatedAt = now]

\* addAccount(authConfig)
addAccount(c) ==
  LET store == loadAccountsStore
      accountInfo == parseAccountInfo(c)
      existingIndex == FindIndex(store, LAMBDA acc : IsExisting(acc, accountInfo))
      now == clock
  IN  IF parseThrows(c)
        THEN [ok |-> FALSE, kind |-> InvalidJwtError, rec |-> NoAccount,
              saved |-> FALSE, accts |-> store, auth |-> authStore,
              nid |-> nextId]
      ELSE IF existingIndex >= 1
        THEN LET existingAccount == store[existingIndex]
                 updated == MergedAccount(existingAccount, accountInfo, now)
             IN  [ok |-> TRUE, kind |-> "merge", rec |-> updated, saved |-> TRUE,
                  accts |-> [store EXCEPT ![existingIndex] = updated],
                  auth |-> saveAccountAuth(existingAccount.id, c),
                  nid |-> nextId]
      ELSE LET newAccount ==
                 [id |-> generateId, accountInfo |-> accountInfo,
                  isActive |-> FirstAccountActive(store),
                  updatedAt |-> now]
           IN  [ok |-> TRUE, kind |-> "new", rec |-> newAccount, saved |-> TRUE,
                accts |-> Append(store, newAccount),
                auth |-> saveAccountAuth(newAccount.id, c),
                nid |-> nextId + 1]

\* Faulty variant: when the filter leaves no active account the first
\* remaining one is activated (what the UI store does with its
\* activeAccountId, useAccountStore.ts 125-131).
RemainingAccounts_reelect(store, accountId) ==
  LET rest == SelectSeq(store, LAMBDA acc : acc.id # accountId)
  IN  IF ActiveIds(rest) = {}
        THEN [i \in 1..Len(rest) |-> [rest[i] EXCEPT !.isActive = (i = 1)]]
        ELSE rest

\* The filter of removeAccount.
RemainingAccounts(store, accountId) ==
  SelectSeq(store, LAMBDA acc : acc.id # accountId)

\* What removeAccount met in the loaded store: no account with the id, the
\* active account, or an inactive one.
RemovedKind(store, accountId) ==
  IF accountId \notin IdsOf(store) THEN "absent"
  ELSE IF \E i \in ActiveIds(store) : store[i].id = accountId THEN "active"
  ELSE "inactive"

\* removeAccount(accountId); deleteOk is whether delete_account_auth resolves.
removeAccount(accountId, deleteOk) ==
  LET store == loadAccountsStore
  IN  [ok |-> deleteOk, saved |-> TRUE,
       kind |-> RemovedKind(store, accountId),
       accts |-> RemainingAccounts(store, accountId),
       auth |-> IF deleteOk THEN deleteAccountAuth(accountId)
                ELSE authStore]

\* Faulty variant: the target is activated and the others are left alone.
setActiveAccount_keepOthers(store, accountId) ==
  [i \in 1..Len(store) |->
     [store[i] EXCEPT !.isActive = (store[i].isActive \/ store[i].id = accountId)]]

\* setActiveAccount(accountId) applied to a loaded accounts array.
setActiveAccount(store, accountId) ==
  [i \in 1..Len(store) |-> [store[i] EXCEPT !.isActive = (store[i].id = accountId)]]

\* The Error switchToAccount throws for an id the store does not hold, and
\* the rejection of read_account_auth when the backend holds no secret.
AccountNotFoundError == "Account not found"
ReadAccountAuthError == "read_account_auth rejected"

\* Faulty variant: the lookup is skipped.
HasAccount_always(store, accountId) == TRUE

\* The find of switchToAccount.
HasAccount(store, accountId) ==
  \E i \in 1..Len(store) : store[i].id = accountId

\* switchToAccount(accountId); kind "written" says that write_codex_auth ran.
switchToAccount(accountId) ==
  LET store == loadAccountsStore
  IN  IF ~HasAccount(store, accountId)
        THEN [ok |-> FALSE, saved |-> FALSE, accts |-> store,
              codex |-> codexAuth, kind |-> AccountNotFoundError]
      ELSE IF ~authStore[accountId].has
        THEN [ok |-> FALSE, saved |-> FALSE, accts |-> store,
              codex |-> codexAuth, kind |-> ReadAccountAuthError]
      ELSE [ok |-> TRUE, saved |-> TRUE,
            accts |-> setActiveAccount(store, accountId),
            codex |-> [st |-> "ok", cred |-> authStore[accountId].cred],
            kind |-> "written"]

\* The id left in matchedId by the forEach of syncCurrentAccount: the last
\* account whose profile account id equals the observed one.
MatchedId(store, currentAccountId) ==
  LET M == {i \in 1..Len(store) : store[i].accountInfo.accountId = currentAccountId}
  IN  IF M = {} THEN Null
      ELSE store[CHOOSE i \in M : \A j \in M : j <= i].id

\* Faulty variant: the logged-out branch returns without clearing (as the
\* earlier syncCurrentAccount at storage.ts 210-212 did).
ClearActive_skip(store) == store

\* The logged-out branch of syncCurrentAccount: every isActive flag cleared.
ClearActive(store) ==
  [i \in 1..Len(store) |-> [store[i] EXCEPT !.isActive = FALSE]]

\* The forEach of syncCurrentAccount: isActive set on the accounts whose
\* profile account id is the observed one and cleared on the others.
MarkActive(store, currentAccountId) ==
  [i \in 1..Len(store) |->
     [store[i] EXCEPT !.isActive = (store[i].accountInfo.accountId = currentAccountId)]]

\* Faulty variant: sync saves on every call.
NeedsSave_always(store, updated) == TRUE

\* needsSave: some isActive flag was flipped.
NeedsSave(store, updated) ==
  \E i \in 1..Len(store) : updated[i].isActive # store[i].isActive

\* syncCurrentAccount()
syncCurrentAccount ==
  LET currentAccountId == getCurrentAuthAccountId
      store == loadAccountsStore
  IN  IF currentAccountId = Thrown
        THEN [ok |-> FALSE, ret |-> Null, accts |-> store, saved |-> FALSE,
              cur |-> currentAccountId]
      ELSE IF currentAccountId = NoIdent
        THEN [ok |-> TRUE, ret |-> Null, accts |-> ClearActive(store),
              saved |-> NeedsSave(store, ClearActive(store)),
              cur |-> currentAccountId]
      ELSE [ok |-> TRUE, ret |-> MatchedId(store, currentAccountId),
            accts |-> MarkActive(store, currentAccountId),
            saved |-> NeedsSave(store, MarkActive(store, currentAccountId)),
            cur |-> currentAccountId]

\* What a save leaves on disk.
Persist(e) ==
  /\ storeExists' = (storeExists \/ e.saved)
  /\ accounts' = IF e.saved THEN e.accts ELSE accounts

\* Record of an operation for the properties below: kind is the branch the
\* operation took, or the message of the Error it threw; rep says that the
\* operation repeats the one before it (nothing happened in between).
Done(op, ok, ret, saved, arg, id, kind, cur, rep) ==
  last' = [op |-> op, ok |-> ok, ret |-> ret, saved |-> saved, arg |-> arg,
           id |-> id, kind |-> kind, cur |-> cur, rep |-> rep]

\* Two credentials carry the same identity: their profiles agree on account
\* id, user id and email.
SameIdentity(c, d) ==
  /\ ~parseThrows(c) /\ ~parseThrows(d)
  /\ parseAccountInfo(c) = parseAccountInfo(d)

\* ---------------------------------------------- actions: the storage API

AddAccount(c) ==
  LET e == addAccount(c) IN
  /\ e.kind = "new" => nextId <= MaxAccounts
  /\ Persist(e)
  /\ authStore' = e.auth
  /\ nextId' = e.nid
  /\ Done("add", e.ok, e.rec.id, e.saved, c, Null, e.kind, NoIdent,
          e.ok /\ last.op = "add" /\ last.ok /\ SameIdentity(last.arg, c))
  /\ UNCHANGED <<codexAuth, clock, uiVars, loadVars, restVars>>

RemoveAccount(id) ==
  LET e == removeAccount(id, TRUE) IN
  /\ Persist(e)
  /\ authStore' = e.auth
  /\ Done("remove", e.ok, Null, e.saved, NoSecret.cred, id, e.kind, NoIdent, FALSE)
  /\ UNCHANGED <<codexAuth, nextId, clock, uiVars, loadVars, restVars>>

SwitchToAccount(id) ==
  LET e == switchToAccount(id) IN
  /\ Persist(e)
  /\ codexAuth' = e.codex
  /\ Done("switch", e.ok, Null, e.saved, NoSecret.cred, id, e.kind, NoIdent, FALSE)
  /\ UNCHANGED <<authStore, nextId, clock, uiVars, loadVars, restVars>>

SyncCurrentAccount ==
  LET e == syncCurrentAccount IN
  /\ Persist(e)
  /\ Done("sync", e.ok, e.ret, e.saved, NoSecret.cred, Null, codexAuth.st, e.cur,
          last.op = "sync" /\ last.ok)
  /\ UNCHANGED <<authStore, codexAuth, nextId, clock, uiVars, loadVars, restVars>>

\* ------------------------------------------------ actions: the environment

EnvDone == Done("env", TRUE, Null, FALSE, NoSecret.cred, Null, "none", NoIdent, FALSE)

\* `codex login` run outside the application rewrites auth.json.
ExternalLogin(c) ==
  /\ codexAuth' = [st |-> "ok", cred |-> c]
  /\ EnvDone
  /\ UNCHANGED <<storeExists, accounts, authStore, nextId, clock, uiVars, loadVars, restVars>>

\* `codex logout`: auth.json is removed.
ExternalLogout ==
  /\ codexAuth.st # "absent"
  /\ codexAuth' = [st |-> "absent", cred |-> NoSecret.cred]
  /\ EnvDone
  /\ UNCHANGED <<storeExists, accounts, authStore, nextId, clock, uiVars, loadVars, restVars>>

\* auth.json cannot be read or is not JSON (read_codex_auth rejects or
\* JSON.parse throws).
ExternalUnreadable ==
  /\ codexAuth.st # "unreadable"
  /\ codexAuth' = [st |-> "unreadable", cred |-> NoSecret.cred]
  /\ EnvDone
  /\ UNCHANGED <<storeExists, accounts, authStore, nextId, clock, uiVars, loadVars, restVars>>

\* Time passes (new Date() returns a later instant).
Tick ==
  /\ clock < MaxClock
  /\ clock' = clock + 1
  /\ UNCHANGED <<diskVars, last, uiVars, loadVars, restVars>>

Env ==
  \/ \E c \in Creds : ExternalLogin(c)
  \/ ExternalLogout
  \/ ExternalUnreadable
  \/ Tick

Next ==
  \/ \E c \in Creds : AddAccount(c)
  \/ \E id \in Ids : RemoveAccount(id)
  \/ \E id \in Ids : SwitchToAccount(id)
  \/ SyncCurrentAccount
  \/ Env

Spec == Init /\ [][Next]_vars

\* ------------------------------------- actions: useAccountStore (the UI)
\* Each UI action awaits the storage operation and then updates the
\* in-memory accounts and activeAccountId.  loadAccounts always ends with a
\* sync, whose map() gives the UI its own accounts array.

\* Faulty variant: the timer effect returns no cleanup, so a timer of an
\* earlier run stays live.
TimerCleanup_none(ref, cleanup) == ref

\* The cleanup the timer effect of useAutoRefresh returned, which React runs
\* before it runs the effect again: clearInterval(intervalRef.current).
TimerCleanup(ref, cleanup) == IF cleanup THEN 0 ELSE ref

\* The timer effect of useAutoRefresh, re-run after a render in which
\* config.autoRefreshInterval, accounts.length or refreshAllUsage (hence
\* accounts) changed.  A re-run with nothing changed arms the same timer
\* again.
TimerEffect(interval, n) ==
  IF interval <= 0 \/ n = 0
    THEN /\ intervalRef' = TimerCleanup(intervalRef, hasCleanup)
         /\ hasCleanup' = FALSE
    ELSE /\ intervalRef' = interval
         /\ hasCleanup' = TRUE

\* The set() of the UI syncCurrentAccount after syncCurrent() returned.
UiAfterSync(uiAccts, matchedId) ==
  [i \in 1..Len(uiAccts) |->
     [uiAccts[i] EXCEPT !.isActive =
        IF matchedId # Null THEN uiAccts[i].id = matchedId ELSE FALSE]]

\* loadAccounts runs once, from the effect App registers on mount; the
\* accounts and activeAccountId it sets first are replaced by those of the
\* sync it ends with.
UILoadAccounts ==
  LET e == syncCurrentAccount IN
  /\ ~hasLoaded
  /\ Persist(e)
  /\ uiAccounts' = UiAfterSync(loadAccountsStore, e.ret)
  /\ activeAccountId' = e.ret
  /\ hasLoaded' = TRUE
  /\ Done("sync", e.ok, e.ret, e.saved, NoSecret.cred, Null, codexAuth.st, e.cur, FALSE)
  /\ UNCHANGED <<authStore, codexAuth, nextId, clock, loadVars, uiRestVars>>
  /\ TimerEffect(autoRefreshInterval, Len(uiAccounts'))

UISyncCurrentAccount ==
  LET e == syncCurrentAccount IN
  /\ hasLoaded
  /\ Persist(e)
  /\ uiAccounts' = UiAfterSync(uiAccounts, e.ret)
  /\ activeAccountId' = e.ret
  /\ Done("sync", e.ok, e.ret, e.saved, NoSecret.cred, Null, codexAuth.st, e.cur,
          last.op = "sync" /\ last.ok)
  /\ UNCHANGED <<authStore, codexAuth, nextId, clock, hasLoaded, loadVars, uiRestVars>>
  /\ TimerEffect(autoRefreshInterval, Len(uiAccounts'))

UIAddAccount(c) ==
  LET e == addAccount(c)
      newAccount == e.rec
      existingIndex == FindIndex(uiAccounts, LAMBDA a : a.id = newAccount.id)
  IN
  /\ hasLoaded
  /\ e.kind = "new" => nextId <= MaxAccounts
  /\ Persist(e)
  /\ authStore' = e.auth
  /\ nextId' = e.nid
  /\ IF ~e.ok
       THEN UNCHANGED <<uiAccounts, activeAccountId>>
     ELSE IF existingIndex >= 1
       THEN /\ uiAccounts' = [uiAccounts EXCEPT ![existingIndex] = newAccount]
            /\ UNCHANGED activeAccountId
     ELSE /\ uiAccounts' = Append(uiAccounts, newAccount)
          /\ activeAccountId' =
               IF Len(uiAccounts) = 0 THEN newAccount.id ELSE activeAccountId
  /\ Done("add", e.ok, e.rec.id, e.saved, c, Null, e.kind, NoIdent,
          e.ok /\ last.op = "add" /\ last.ok /\ SameIdentity(last.arg, c))
  /\ UNCHANGED <<codexAuth, clock, hasLoaded, loadVars, uiRestVars>>
  /\ TimerEffect(autoRefreshInterval, Len(uiAccounts'))

\* removeAccount of the UI store: when the storage call throws (the secret
\* could not be deleted) the catch block leaves the in-memory list alone.
UIRemoveAccount(id, deleteOk) ==
  LET e == removeAccount(id, deleteOk)
      newAccounts == SelectSeq(uiAccounts, LAMBDA a : a.id # id)
  IN
  /\ hasLoaded
  /\ id \in IdsOf(uiAccounts)
  /\ Persist(e)
  /\ authStore' = e.auth
  /\ IF ~e.ok
       THEN UNCHANGED <<uiAccounts, activeAccountId>>
     ELSE /\ uiAccounts' = newAccounts
          /\ activeAccountId' =
               IF activeAccountId = id
                 THEN (IF Len(newAccounts) > 0 THEN newAccounts[1].id ELSE Null)
                 ELSE activeAccountId
  /\ Done("remove", e.ok, Null, e.saved, NoSecret.cred, id, e.kind, NoIdent, FALSE)
  /\ UNCHANGED <<codexAuth, nextId, clock, hasLoaded, loadVars, uiRestVars>>
  /\ TimerEffect(autoRefreshInterval, Len(uiAccounts'))

UISwitchToAccount(id) ==
  LET e == switchToAccount(id) IN
  /\ hasLoaded
  /\ id \in IdsOf(uiAccounts)
  /\ Persist(e)
  /\ codexAuth' = e.codex
  /\ IF ~e.ok
       THEN UNCHANGED <<uiAccounts, activeAccountId>>
     ELSE /\ uiAccounts' = setActiveAccount(uiAccounts, id)
          /\ activeAccountId' = id
  /\ Done("switch", e.ok, Null, e.saved, NoSecret.cred, id, e.kind, NoIdent, FALSE)
  /\ UNCHANGED <<authStore, nextId, clock, hasLoaded, loadVars, uiRestVars>>
  /\ TimerEffect(autoRefreshInterval, Len(uiAccounts'))

\* updateConfig(config) with autoRefreshInterval n in the merged config: it
\* saves a store built from the in-memory accounts, then sets the config
\* (the timer effect depends on it).
UpdateConfig(n) ==
  /\ hasLoaded
  /\ storeExists' = TRUE
  /\ accounts' = uiAccounts
  /\ autoRefreshInterval' = n
  /\ TimerEffect(n, Len(uiAccounts))
  /\ Done("config", TRUE, Null, TRUE, NoSecret.cred, Null, "none", NoIdent, FALSE)
  /\ UNCHANGED <<authStore, codexAuth, nextId, clock, uiVars, loadVars,
                 refreshVars, usage, sideVars>>

\* updateConfig that leaves the interval as it is (another setting changed).
UIUpdateConfig == UpdateConfig(autoRefreshInterval)

NextUI ==
  \/ UILoadAccounts
  \/ UISyncCurrentAccount
  \/ \E c \in Creds : UIAddAccount(c)
  \/ \E id \in Ids, deleteOk \in BOOLEAN : UIRemoveAccount(id, deleteOk)
  \/ \E id \in Ids : UISwitchToAccount(id)
  \/ UIUpdateConfig
  \/ Env

SpecUI == Init /\ [][NextUI]_vars

\* ------------------------------- actions: useAutoRefresh (the hook)
\* App mounts the hook once.  A run of refreshAllUsage or
\* refreshSingleAccount that passed its guard is a record in `running`:
\* who started it and the ids it has yet to fetch.

\* updateAccountUsage(accountId, usageInfo): the record gets the usage and a
\* new updatedAt and the store is saved, when the loaded store has the id.
updateAccountUsage(accountId) ==
  LET store == loadAccountsStore
      found == \E i \in 1..Len(store) : store[i].id = accountId
  IN  [saved |-> found,
       accts |-> [i \in 1..Len(store) |->
                    IF store[i].id = accountId
                      THEN [store[i] EXCEPT !.updatedAt = clock] ELSE store[i]],
       usage |-> [k \in Ids |-> IF found /\ k = accountId THEN 1 ELSE usage[k]]]

\* The guard of refreshAllUsage.
RefreshAllSkips == isRefreshingRef \/ Len(uiAccounts) = 0


\* Faulty variant: refreshSingleAccount starts whatever the flag says.
RefreshSingleSkips_never == FALSE

\* The guard of refreshSingleAccount.
RefreshSingleSkips == isRefreshingRef

\* The ids of an accounts array, in order.
IdSeq(s) == [i \in 1..Len(s) |-> s[i].id]

\* A call of refreshAllUsage, by the interval timer or by the user: skipped
\* by the guard, or the flag is set and the run starts.
RefreshAllUsage(by) ==
  /\ IF RefreshAllSkips
       THEN /\ UNCHANGED refreshVars
            /\ Done(by, TRUE, Null, FALSE, NoSecret.cred, Null, "skipped",
                    NoIdent, FALSE)
       ELSE /\ isRefreshingRef' = TRUE
            /\ running' = Append(running, [by |-> by, todo |-> IdSeq(uiAccounts)])
            /\ Done(by, TRUE, Null, FALSE, NoSecret.cred, Null, "started",
                    NoIdent, FALSE)
  /\ UNCHANGED <<diskVars, clock, uiVars, loadVars, autoRefreshInterval,
                 timerVars, usage, sideVars>>

\* The callback of the interval timer.
TimerFires ==
  /\ intervalRef > 0
  /\ RefreshAllUsage("timerRefreshAll")

\* The "refresh all" button.
UserRefreshAll ==
  /\ hasLoaded
  /\ RefreshAllUsage("refreshAll")

\* refreshSingleAccount(accountId), from the card's button or from the
\* effect that follows the active account.
RefreshSingleAccount(id) ==
  /\ hasLoaded
  /\ id \in IdsOf(uiAccounts)
  /\ IF RefreshSingleSkips
       THEN /\ UNCHANGED refreshVars
            /\ Done("refreshSingle", TRUE, Null, FALSE, NoSecret.cred, id,
                    "skipped", NoIdent, FALSE)
       ELSE /\ isRefreshingRef' = TRUE
            /\ running' = Append(running, [by |-> "refreshSingle", todo |-> <<id>>])
            /\ Done("refreshSingle", TRUE, Null, FALSE, NoSecret.cred, id,
                    "started", NoIdent, FALSE)
  /\ UNCHANGED <<diskVars, clock, uiVars, loadVars, autoRefreshInterval,
                 timerVars, usage, sideVars>>

\* The sequence s without its r-th element.
RemoveAt(s, r) == [i \in 1..(Len(s) - 1) |-> IF i < r THEN s[i] ELSE s[i + 1]]

\* One turn of a run: fetchAccountUsage for the next id (it catches its own
\* errors) and updateUsage, which stores the usage through
\* updateAccountUsage and swallows a failure.
RefreshFetch(r) ==
  LET run == running[r]
      e == updateAccountUsage(Head(run.todo))
  IN
  /\ run.todo # <<>>
  /\ Persist(e)
  /\ usage' = e.usage
  /\ running' = [running EXCEPT ![r].todo = Tail(run.todo)]
  /\ Done("fetch", TRUE, Null, e.saved, NoSecret.cred, Head(run.todo), run.by,
          NoIdent, FALSE)
  /\ UNCHANGED <<authStore, codexAuth, nextId, clock, uiVars, loadVars,
                 autoRefreshInterval, timerVars, isRefreshingRef, sideVars>>

\* The finally block of a run: reached when every id is done, or (threw)
\* when an exception unwinds the loop.
RefreshEnd(r, threw) ==
  /\ threw \/ running[r].todo = <<>>
  /\ isRefreshingRef' = FALSE
  /\ running' = RemoveAt(running, r)
  /\ Done("refreshEnd", ~threw, Null, FALSE, NoSecret.cred, Null,
          running[r].by, NoIdent, FALSE)
  /\ UNCHANGED <<diskVars, clock, uiVars, loadVars, autoRefreshInterval,
                 timerVars, usage, sideVars>>

NextHook ==
  \/ UILoadAccounts
  \/ \E c \in Creds : UIAddAccount(c)
  \/ \E id \in Ids : UIRemoveAccount(id, TRUE)
  \/ \E n \in IntervalValues : UpdateConfig(n)
  \/ TimerFires
  \/ UserRefreshAll
  \/ \E id \in Ids : RefreshSingleAccount(id)
  \/ \E r \in 1..Len(running) : RefreshFetch(r)
  \/ \E r \in 1..Len(running), threw \in BOOLEAN : RefreshEnd(r, threw)

SpecHook == Init /\ [][NextHook]_vars

\* ---------------------------------------------- the match ranker
\* The ranker of the specification (section 4.3); storage.ts compares
\* accountInfo.accountId only and has no ranker.

Identities ==
  [accountId : AccountIdValues \cup {""}, userId : UserIdValues \cup {""},
   email : {"x@y.com", "z@y.com", ""}]

\* Both identities have the field and agree on it.
SameField_leftOnly(a, b, f) == a[f] # "" /\ (b[f] = "" \/ a[f] = b[f])
SameField(a, b, f) == a[f] # "" /\ b[f] # "" /\ a[f] = b[f]

\* rank(a, b): the first rule that applies, strongest first.
rank(a, b) ==
  IF SameField(a, b, "accountId") /\ SameField(a, b, "userId") THEN 5
  ELSE IF SameField(a, b, "accountId") /\ SameField(a, b, "email") THEN 4
  ELSE IF SameField(a, b, "userId") THEN 3
  ELSE IF SameField(a, b, "email") THEN 2
  ELSE IF SameField(a, b, "accountId") THEN 1
  ELSE 0

\* Two identities are handed to the ranker.
ChooseIdentities(a, b) ==
  /\ rankArgs' = <<a, b>>
  /\ rankResult' = NoRank
  /\ UNCHANGED <<diskVars, clock, last, uiVars, loadVars, hookVars, usage, raceVars>>

\* The ranker is applied to them both ways round and to the first with
\* itself.
RankIdentities ==
  /\ rankResult = NoRank
  /\ rankResult' = [ab |-> rank(rankArgs[1], rankArgs[2]),
                    ba |-> rank(rankArgs[2], rankArgs[1]),
                    aa |-> rank(rankArgs[1], rankArgs[1])]
  /\ UNCHANGED <<diskVars, clock, last, uiVars, loadVars, hookVars, usage, rankArgs,
                 raceVars>>

NextRank ==
  \/ \E a, b \in Identities : ChooseIdentities(a, b)
  \/ RankIdentities

SpecRank == Init /\ [][NextRank]_vars

\* --------------- actions: switchToAccount, one backend call at a time
\* While a switch is under way last.op is "switching" and last.id is its
\* argument; the other operations wait for it (one caller, one call at a
\* time).

\* switchToAccount up to and including write_codex_auth: the lookup,
\* read_account_auth and the write of auth.json.  A failed lookup or read
\* ends the call.
SwitchWrite(id) ==
  LET e == switchToAccount(id) IN
  /\ last.op # "switching"
  /\ codexAuth' = e.codex
  /\ Done(IF e.ok THEN "switching" ELSE "switch", e.ok, Null, FALSE,
          NoSecret.cred, id, e.kind, NoIdent, FALSE)
  /\ UNCHANGED <<storeExists, accounts, authStore, nextId, clock, uiVars, loadVars, restVars>>

\* setActiveAccount, the last call of switchToAccount: it loads the store
\* again, sets the flags and saves; saveOk is whether save_accounts_store
\* resolves.  When it rejects, switchToAccount rejects with auth.json
\* already written.
SwitchSetActive(saveOk) ==
  /\ last.op = "switching"
  /\ IF saveOk
       THEN /\ storeExists' = TRUE
            /\ accounts' = setActiveAccount(loadAccountsStore, last.id)
       ELSE UNCHANGED <<storeExists, accounts>>
  /\ Done("switch", saveOk, Null, saveOk, NoSecret.cred, last.id, "written",
          NoIdent, FALSE)
  /\ UNCHANGED <<authStore, codexAuth, nextId, clock, uiVars, loadVars, restVars>>

NextSteps ==
  \/ \E id \in Ids : SwitchWrite(id)
  \/ \E saveOk \in BOOLEAN : SwitchSetActive(saveOk)
  \/ /\ last.op # "switching"
     /\ \/ \E c \in Creds : AddAccount(c)
        \/ \E id \in Ids : RemoveAccount(id)
        \/ SyncCurrentAccount
        \/ Env

SpecSteps == Init /\ [][NextSteps]_vars

\* ---------------------- actions: loadAccountsStore and the store file
\* The persisted file is modelled by storeExists, storeFault, accounts (its
\* records without their authConfig) and embedded (the authConfig of each
\* record that has one).

\* What load_accounts_store answers: the text of the file ("data", or
\* "malformed" when JSON.parse throws on it), the rejection 'Store file not
\* found', or another rejection.
LoadResponse ==
  IF storeFault = "ioerror" THEN "error"
  ELSE IF ~storeExists THEN "notfound"
  ELSE IF storeFault = "malformed" THEN "malformed"
  ELSE "data"

\* Faulty variant: every error yields the default store (as the catch block
\* of the earlier loadAccountsStore at storage.ts 29-32 did).
IsStoreNotFound_any(resp) == TRUE

\* The test of the catch block: message.includes('Store file not found').
IsStoreNotFound(resp) == resp = "notfound"

\* The records of a parsed store that carry an authConfig.
NeedsMigration(store) == {i \in 1..Len(store) : embedded[store[i].id].has}

\* Faulty variant: the embedded secrets are not handed to the backend.
MigratedAuth_none(store) == authStore

\* The per-account secrets after the loop called saveAccountAuth(account.id,
\* account.authConfig) for every record with an authConfig.
MigratedAuth(store) ==
  [k \in Ids |->
     IF \E i \in NeedsMigration(store) : store[i].id = k
       THEN embedded[k] ELSE authStore[k]]

\* loadAccountsStore(): whether it returned (ok) or threw, the store it
\* returned (the records and what is left of their authConfig), whether it
\* saved, and the secrets it left in the backend.
loadAccountsStoreCall ==
  LET resp == LoadResponse IN
  IF resp = "data"
    THEN [ok |-> TRUE, saved |-> NeedsMigration(accounts) # {},
          ret |-> [accts |-> accounts, emb |-> NoEmbedded],
          auth |-> MigratedAuth(accounts)]
  ELSE IF IsStoreNotFound(resp)
    THEN [ok |-> TRUE, saved |-> FALSE, ret |-> NothingReturned,
          auth |-> authStore]
  ELSE [ok |-> FALSE, saved |-> FALSE, ret |-> returned, auth |-> authStore]

\* A call of loadAccountsStore; the file it re-saves holds the normalized
\* records.
LoadAccountsStore ==
  LET e == loadAccountsStoreCall IN
  /\ authStore' = e.auth
  /\ embedded' = IF e.saved THEN e.ret.emb ELSE embedded
  /\ returned' = e.ret
  /\ Done("load", e.ok, Null, e.saved, NoSecret.cred, Null, LoadResponse,
          NoIdent, last.op = "load" /\ last.ok)
  /\ UNCHANGED <<storeExists, accounts, codexAuth, nextId, clock, uiVars,
                 storeFault, restVars>>

\* The file is overwritten with text that is not JSON, or the backend can
\* no longer read it.
StoreDamaged(f) ==
  /\ storeFault = "none"
  /\ storeFault' = f
  /\ EnvDone
  /\ UNCHANGED <<diskVars, clock, uiVars, embedded, returned, restVars>>

\* The damage is undone (the file is put back, the disk is readable again).
StoreRestored ==
  /\ storeFault # "none"
  /\ storeFault' = "none"
  /\ EnvDone
  /\ UNCHANGED <<diskVars, clock, uiVars, embedded, returned, restVars>>

\* The store file is deleted.
StoreRemoved ==
  /\ storeExists
  /\ storeExists' = FALSE
  /\ accounts' = <<>>
  /\ embedded' = NoEmbedded
  /\ EnvDone
  /\ UNCHANGED <<authStore, codexAuth, nextId, clock, uiVars, storeFault, returned, restVars>>

\* Credentials whose id_token decodes (addAccount accepts no others).
GoodCreds == {c \in Creds : ~parseThrows(c)}

\* A record as the earlier addAccount (storage.ts 47-90) left it; its
\* authConfig is kept in embedded.
LegacyAccount(id, c, active) ==
  [id |-> id, accountInfo |-> parseAccountInfo(c), isActive |-> active,
   updatedAt |-> 0]

\* A store file written by the earlier version: every record embeds its
\* authConfig, the profile account ids differ (addAccount merged on them),
\* at most one record is active and the backend keeps no per-account
\* secrets yet; or no store file at all.
InitLegacy ==
  \E n \in 0..MaxAccounts :
  \E cs \in [1..n -> GoodCreds] :
  \E a \in 0..n :
    /\ \A i, j \in 1..n :
         i # j => parseAccountInfo(cs[i]).accountId # parseAccountInfo(cs[j]).accountId
    /\ storeExists = (n > 0)
    /\ accounts = [i \in 1..n |-> LegacyAccount(i, cs[i], i = a)]
    /\ embedded = [i \in Ids |-> IF i <= n THEN Secret(cs[i]) ELSE NoSecret]
    /\ authStore = [i \in Ids |-> NoSecret]
    /\ codexAuth = [st |-> "absent", cred |-> NoSecret.cred]
    /\ nextId = n + 1
    /\ clock = 0
    /\ last = [op |-> "none", ok |-> TRUE, ret |-> Null, saved |-> FALSE,
               arg |-> NoSecret.cred, id |-> Null, kind |-> "none",
               cur |-> NoIdent, rep |-> FALSE]
    /\ uiAccounts = <<>>
    /\ activeAccountId = Null
    /\ hasLoaded = FALSE
    /\ storeFault = "none"
    /\ returned = NothingReturned
    /\ autoRefreshInterval = DefaultInterval
    /\ intervalRef = 0
    /\ hasCleanup = FALSE
    /\ isRefreshingRef = FALSE
    /\ running = <<>>
    /\ usage = [i \in Ids |-> 0]
    /\ rankArgs = <<NoIdentity, NoIdentity>>
    /\ rankResult = NoRank
    /\ calls = [k \in Slots |-> IdleCall]
    /\ defaultStore = EmptyStore
    /\ started = 0

NextLoad ==
  \/ LoadAccountsStore
  \/ \E f \in {"malformed", "ioerror"} : StoreDamaged(f)
  \/ StoreRestored
  \/ StoreRemoved

SpecLoad == InitLegacy /\ [][NextLoad]_vars

\* ------------------------- actions: addAccount with generateId as it is
\* generateId returns Date.now() in base 36 followed by seven base-36 digits
\* of Math.random().  Date.now() repeats within a millisecond and whenever
\* the wall clock is set back, and Math.random() may repeat; addAccount does
\* not look the new id up in the store.  The id g is therefore any id, in
\* use or not.
AddAccountAnyId(c, g) ==
  LET e == addAccount(c)
      store == loadAccountsStore
      newAccount == [e.rec EXCEPT !.id = g]
  IN
  /\ e.kind = "new" => Len(store) < MaxAccounts
  /\ storeExists' = (storeExists \/ e.saved)
  /\ accounts' = IF e.kind = "new" THEN Append(store, newAccount)
                 ELSE IF e.saved THEN e.accts ELSE accounts
  /\ authStore' = IF e.kind = "new" THEN saveAccountAuth(g, c) ELSE e.auth
  /\ Done("add", e.ok, IF e.kind = "new" THEN g ELSE e.rec.id, e.saved, c,
          Null, e.kind, NoIdent,
          e.ok /\ last.op = "add" /\ last.ok /\ SameIdentity(last.arg, c))
  /\ UNCHANGED <<codexAuth, nextId, clock, uiVars, loadVars, restVars>>

NextIds ==
  \/ \E c \in Creds, g \in Ids : AddAccountAnyId(c, g)
  \/ \E id \in Ids : RemoveAccount(id)
  \/ \E id \in Ids : SwitchToAccount(id)
  \/ SyncCurrentAccount
  \/ Env

SpecIds == Init /\ [][NextIds]_vars

\* -------------- UI store calls overlapping at their await points
\* addAccount and updateUsage of the UI store taken one backend call at a
\* time.  A step is the completion of the pending backend call followed by
\* the code that runs up to the next await.  No call fails here.

\* The credentials added in SpecRace: two accounts.
RaceCreds ==
  {c \in Creds : c.jwt.ok /\ c.jwt.email = "" /\ c.tok \in {"", c.jwt.acct}}

\* What load_accounts_store answers now: the parsed file, or (alias) the
\* DEFAULT_STORE object itself when there is no file.
ReadStore ==
  IF storeExists
    THEN [alias |-> FALSE, store |-> [accts |-> accounts, usage |-> usage]]
    ELSE [alias |-> TRUE, store |-> defaultStore]

\* Faulty variant: the call works on the file as it is now.
CallStore_reload(call) == [accts |-> accounts, usage |-> usage]

\* The store object a call in flight holds: the one its load returned.
CallStore(call) == IF call.alias THEN defaultStore ELSE call.snap

\* A change made to the store object a call holds.
StoreWrite(k, call, store) ==
  IF call.alias
    THEN /\ defaultStore' = store
         /\ calls' = [calls EXCEPT ![k] = [call EXCEPT !.data = store]]
    ELSE /\ calls' = [calls EXCEPT ![k] = [call EXCEPT !.data = store]]
         /\ UNCHANGED defaultStore

\* save_accounts_store completes: the file holds what was serialized.
FileWrite(call) ==
  /\ storeExists' = TRUE
  /\ accounts' = call.data.accts
  /\ usage' = call.data.usage

\* addAccount up to its first await after the load: the store is read,
\* the profile parsed, the account looked up, a new record built, and
\* save_account_auth requested.
AddLoad(k, c) ==
  LET r == ReadStore
      accountInfo == parseAccountInfo(c)
      existingIndex == FindIndex(r.store.accts, LAMBDA acc : IsExisting(acc, accountInfo))
      newAccount == [id |-> generateId, accountInfo |-> accountInfo,
                     isActive |-> FirstAccountActive(r.store.accts),
                     updatedAt |-> clock]
  IN
  /\ hasLoaded
  /\ calls[k].op = "idle"
  /\ started < MaxStarted
  /\ started' = started + 1
  /\ existingIndex = 0 => nextId <= MaxAccounts
  /\ nextId' = IF existingIndex = 0 THEN nextId + 1 ELSE nextId
  /\ calls' = [calls EXCEPT ![k] =
                 [op |-> "add", pc |-> "auth", arg |-> c, id |-> Null,
                  alias |-> r.alias,
                  snap |-> IF r.alias THEN EmptyStore ELSE r.store,
                  rec |-> IF existingIndex = 0 THEN newAccount
                          ELSE r.store.accts[existingIndex],
                  idx |-> existingIndex, data |-> EmptyStore]]
  /\ Done("addLoad", TRUE, Null, FALSE, c, Null, k, NoIdent, FALSE)
  /\ UNCHANGED <<storeExists, accounts, authStore, codexAuth, clock, uiVars,
                 loadVars, hookVars, usage, rankVars, defaultStore>>

\* save_account_auth completes: the record is pushed (or merged) into the
\* store object the call holds, which is serialized for save_accounts_store.
AddAuth(k) ==
  LET call == calls[k]
      store == CallStore(call)
      updated == MergedAccount(call.rec, parseAccountInfo(call.arg), clock)
      rec == IF call.idx = 0 THEN call.rec ELSE updated
      accts == IF call.idx = 0 THEN Append(store.accts, call.rec)
               ELSE [store.accts EXCEPT ![call.idx] = updated]
  IN
  /\ call.op = "add" /\ call.pc = "auth"
  /\ authStore' = saveAccountAuth(call.rec.id, call.arg)
  /\ StoreWrite(k, [call EXCEPT !.pc = "save", !.rec = rec],
                [accts |-> accts, usage |-> store.usage])
  /\ Done("addAuth", TRUE, Null, FALSE, call.arg, Null, k, NoIdent, FALSE)
  /\ UNCHANGED <<storeExists, accounts, codexAuth, nextId, clock, uiVars,
                 loadVars, hookVars, usage, rankVars, started>>

\* save_accounts_store completes: addAccount returns the record and the UI
\* store puts it into its list.
AddSave(k) ==
  LET call == calls[k]
      newAccount == call.rec
      existingIndex == FindIndex(uiAccounts, LAMBDA a : a.id = newAccount.id)
  IN
  /\ call.op = "add" /\ call.pc = "save"
  /\ FileWrite(call)
  /\ calls' = [calls EXCEPT ![k] = IdleCall]
  /\ IF existingIndex >= 1
       THEN /\ uiAccounts' = [uiAccounts EXCEPT ![existingIndex] = newAccount]
            /\ UNCHANGED activeAccountId
       ELSE /\ uiAccounts' = Append(uiAccounts, newAccount)
            /\ activeAccountId' =
                 IF Len(uiAccounts) = 0 THEN newAccount.id ELSE activeAccountId
  /\ Done("add", TRUE, newAccount.id, TRUE, call.arg, Null,
          IF call.idx = 0 THEN "new" ELSE "merge", NoIdent, FALSE)
  /\ UNCHANGED <<authStore, codexAuth, nextId, clock, hasLoaded, loadVars,
                 autoRefreshInterval, refreshVars, rankVars, defaultStore,
                 started>>
  /\ TimerEffect(autoRefreshInterval, Len(uiAccounts'))

\* updateAccountUsage up to its await: the store is read and, when the
\* account is found, its usageInfo and updatedAt are set in the store object
\* and save_accounts_store is requested; otherwise the call returns.
UsageLoad(k, accountId) ==
  LET r == ReadStore
      store == r.store
      found == \E i \in 1..Len(store.accts) : store.accts[i].id = accountId
      call == [IdleCall EXCEPT !.op = "usage", !.pc = "save", !.id = accountId,
                               !.alias = r.alias,
                               !.snap = IF r.alias THEN EmptyStore ELSE store]
      changed ==
        [accts |-> [i \in 1..Len(store.accts) |->
                      IF store.accts[i].id = accountId
                        THEN [store.accts[i] EXCEPT !.updatedAt = clock]
                        ELSE store.accts[i]],
         usage |-> [i \in Ids |-> IF i = accountId THEN 1 ELSE store.usage[i]]]
  IN
  /\ hasLoaded
  /\ calls[k].op = "idle"
  /\ accountId \in IdsOf(uiAccounts)
  /\ started < MaxStarted
  /\ started' = started + 1
  /\ IF found
       THEN /\ StoreWrite(k, call, changed)
            /\ Done("usageLoad", TRUE, Null, FALSE, NoSecret.cred, accountId, k,
                    NoIdent, FALSE)
       ELSE /\ UNCHANGED <<calls, defaultStore>>
            /\ Done("usage", TRUE, Null, FALSE, NoSecret.cred, accountId, k,
                    NoIdent, FALSE)
  /\ UNCHANGED <<diskVars, clock, uiVars, loadVars, hookVars, usage, rankVars>>

\* save_accounts_store completes: updateUsage returns.
UsageSave(k) ==
  LET call == calls[k] IN
  /\ call.op = "usage" /\ call.pc = "save"
  /\ FileWrite(call)
  /\ calls' = [calls EXCEPT ![k] = IdleCall]
  /\ Done("usage", TRUE, Null, TRUE, NoSecret.cred, call.id, k, NoIdent, FALSE)
  /\ UNCHANGED <<authStore, codexAuth, nextId, clock, uiVars, loadVars,
                 hookVars, rankVars, defaultStore, started>>

NextRace ==
  \/ UILoadAccounts
  \/ UIUpdateConfig
  \/ \E k \in Slots, c \in RaceCreds : AddLoad(k, c)
  \/ \E k \in Slots : AddAuth(k)
  \/ \E k \in Slots : AddSave(k)
  \/ \E k \in Slots, id \in Ids : UsageLoad(k, id)
  \/ \E k \in Slots : UsageSave(k)

SpecRace == Init /\ [][NextRace]_vars

\* ------------- addAccount and removeAccount with failing backend calls
\* SpecIO: the UI store's calls run one at a time; addAccount and
\* removeAccount are taken one backend call at a time and the pending backend
\* call may reject.

\* Faulty variant: the secret is deleted before the store is saved.
SecretsBeforeSave_deleted(accountId) == deleteAccountAuth(accountId)

\* The secrets while removeAccount waits for save_accounts_store:
\* delete_account_auth is requested only after the save has resolved.
SecretsBeforeSave(accountId) == authStore

\* No call is in flight.
Quiet == \A k \in Slots : calls[k].op = "idle"

\* removeAccount up to its first await after the load: the store is read,
\* the account filtered out of the store object and save_accounts_store
\* requested.
RemoveLoad(k, accountId) ==
  LET r == ReadStore
      call == [IdleCall EXCEPT !.op = "remove", !.pc = "save", !.id = accountId,
                               !.alias = r.alias,
                               !.snap = IF r.alias THEN EmptyStore ELSE r.store]
  IN
  /\ hasLoaded
  /\ calls[k].op = "idle"
  /\ accountId \in IdsOf(uiAccounts)
  /\ started < MaxStarted
  /\ started' = started + 1
  /\ StoreWrite(k, call, [accts |-> RemainingAccounts(r.store.accts, accountId),
                          usage |-> r.store.usage])
  /\ authStore' = SecretsBeforeSave(accountId)
  /\ Done("removeLoad", TRUE, Null, FALSE, NoSecret.cred, accountId, k, NoIdent, FALSE)
  /\ UNCHANGED <<storeExists, accounts, codexAuth, nextId, clock, uiVars,
                 loadVars, hookVars, usage, rankVars>>

\* save_accounts_store completes and delete_account_auth is requested.
RemoveSave(k) ==
  LET call == calls[k] IN
  /\ call.op = "remove" /\ call.pc = "save"
  /\ FileWrite(call)
  /\ calls' = [calls EXCEPT ![k] = [call EXCEPT !.pc = "delete"]]
  /\ Done("removeSave", TRUE, Null, TRUE, NoSecret.cred, call.id, k, NoIdent, FALSE)
  /\ UNCHANGED <<authStore, codexAuth, nextId, clock, uiVars, loadVars,
                 hookVars, rankVars, defaultStore, started>>

\* delete_account_auth completes: removeAccount returns and the UI store
\* drops the account from its list.
RemoveDelete(k) ==
  LET call == calls[k]
      newAccounts == SelectSeq(uiAccounts, LAMBDA a : a.id # call.id)
  IN
  /\ call.op = "remove" /\ call.pc = "delete"
  /\ authStore' = deleteAccountAuth(call.id)
  /\ calls' = [calls EXCEPT ![k] = IdleCall]
  /\ uiAccounts' = newAccounts
  /\ activeAccountId' =
       IF activeAccountId = call.id
         THEN (IF Len(newAccounts) > 0 THEN newAccounts[1].id ELSE Null)
         ELSE activeAccountId
  /\ Done("remove", TRUE, Null, TRUE, NoSecret.cred, call.id, k, NoIdent, FALSE)
  /\ UNCHANGED <<storeExists, accounts, codexAuth, nextId, clock, hasLoaded,
                 loadVars, autoRefreshInterval, refreshVars, usage, rankVars,
                 defaultStore, started>>
  /\ TimerEffect(autoRefreshInterval, Len(uiAccounts'))

\* The pending backend call of the call in slot k rejects: the call throws,
\* nothing more is written, and the UI store's catch block leaves its list
\* alone.
CallFails(k) ==
  LET call == calls[k] IN
  /\ call.op # "idle"
  /\ calls' = [calls EXCEPT ![k] = IdleCall]
  /\ Done(call.op, FALSE, Null, FALSE, call.arg, call.id, call.pc, NoIdent, FALSE)
  /\ UNCHANGED <<diskVars, clock, uiVars, loadVars, hookVars, usage, rankVars,
                 defaultStore, started>>

NextIO ==
  \/ UILoadAccounts
  \/ Quiet /\ UIUpdateConfig
  \/ Quiet /\ UISyncCurrentAccount
  \/ \E id \in Ids : Quiet /\ UISwitchToAccount(id)
  \/ \E c \in RaceCreds : Quiet /\ AddLoad("first", c)
  \/ AddAuth("first")
  \/ AddSave("first")
  \/ \E id \in Ids : Quiet /\ RemoveLoad("first", id)
  \/ RemoveSave("first")
  \/ RemoveDelete("first")
  \/ CallFails("first")

SpecIO == Init /\ [][NextIO]_vars

\* ------------------------------------------------------------ properties

\* At most one account of an accounts array is active.
AtMostOneActive(s) == Cardinality(ActiveIds(s)) <= 1

\* The step is an addAccount call; its argument is last'.arg (no time
\* passes inside a call).
AddStep == last'.op = "add" /\ clock' = clock

\* The persisted record with a given id (ids are unique in the store).
RecordOf(s, id) == s[CHOOSE i \in 1..Len(s) : s[i].id = id]

\* C1 - Single-active invariant: after any sequence of addAccount,
\* removeAccount, switchToAccount and syncCurrentAccount calls run one at a
\* time from an empty store, the persisted store has at most one account
\* with isActive = true.
C1_SingleActive == AtMostOneActive(accounts)

\* Two accounts are stored, one of them active, after a sync that activated it.
C1_Witness ==
  /\ Len(accounts) = 2
  /\ Cardinality(ActiveIds(accounts)) = 1
  /\ last.op = "sync" /\ last.saved /\ last.ret # Null

\* C2 - Sync clears on logout: a completed syncCurrentAccount that found the
\* external credential absent leaves no persisted account active and
\* returns null.
C2_SyncClearsOnLogout ==
  (last.op = "sync" /\ last.ok /\ last.kind = "absent")
    => (ActiveIds(accounts) = {} /\ last.ret = Null)

\* A sync with auth.json absent had an active account to clear (it saved).
C2_Witness ==
  /\ last.op = "sync" /\ last.ok /\ last.kind = "absent"
  /\ last.saved
  /\ Len(accounts) = 2

\* C3 - Sync is idempotent: a syncCurrentAccount that directly follows a
\* completed one (credential and store untouched in between) issues no save,
\* returns what the first returned and leaves the store as it was.
C3_SyncIdempotent ==
  [][(last.op = "sync" /\ last.ok /\ last'.op = "sync" /\ last'.rep)
       => (~last'.saved /\ last'.ret = last.ret /\ last'.ok
           /\ accounts' = accounts /\ storeExists' = storeExists)]_vars

\* A second sync in a row returned the id of the matched account.
C3_Witness ==
  /\ last.op = "sync" /\ last.rep /\ last.ok
  /\ last.ret # Null
  /\ Len(accounts) = 2

\* C4 - After syncCurrentAccount completes with return value r: r is null
\* exactly when no stored account is active; otherwise the account with id r
\* is active and every other account is inactive.
C4_SyncReturnIsTheActive ==
  (last.op = "sync" /\ last.ok)
    => /\ (last.ret = Null) <=> (ActiveIds(accounts) = {})
       /\ last.ret # Null =>
            \A i \in 1..Len(accounts) :
               accounts[i].isActive <=> (accounts[i].id = last.ret)

\* C5 - Scenario B: the store holds two accounts with the same account id
\* and different user ids, and sync observes that account id together with
\* the user id of the second: afterwards the second account is active and
\* the first is not.
C5_ScenarioB ==
  ( /\ last.op = "sync" /\ last.ok
    /\ Len(accounts) = 2
    /\ accounts[1].accountInfo.accountId = accounts[2].accountInfo.accountId
    /\ accounts[1].accountInfo.userId # accounts[2].accountInfo.userId
    /\ codexAuth.st = "ok" /\ ~parseThrows(codexAuth.cred)
    /\ codexAuth.cred.tok = accounts[2].accountInfo.accountId
    /\ parseAccountInfo(codexAuth.cred).accountId = accounts[2].accountInfo.accountId
    /\ parseAccountInfo(codexAuth.cred).userId = accounts[2].accountInfo.userId )
  => (accounts[2].isActive /\ ~accounts[1].isActive)

\* auth.json cannot be read or parsed, or holds no account id and an
\* id_token that does not decode.
CredentialReadFails ==
  \/ codexAuth.st = "unreadable"
  \/ codexAuth.st = "ok" /\ codexAuth.cred.tok = "" /\ parseThrows(codexAuth.cred)

\* C6 - A failure to read or parse auth.json during sync is not surfaced:
\* the sync completes, returns null and leaves no account active, as for an
\* absent credential.
C6_SyncAbsorbsReadFailure ==
  (last.op = "sync" /\ CredentialReadFails)
    => (last.ok /\ last.ret = Null /\ ActiveIds(accounts) = {})

\* A sync that could not read auth.json cleared an active flag.
C6_Witness ==
  /\ last.op = "sync" /\ codexAuth.st = "unreadable"
  /\ last.ok /\ last.saved
  /\ Len(accounts) >= 1

\* The spec's normalizeEmail: 'Unknown' and strings without '@' carry no email.
HasEmail(info) == info.email \in EmailValues

\* A profile and a stored account agree on user id or on email.
SharesUserOrEmail(info, acc) ==
  \/ info.userId # "" /\ info.userId = acc.accountInfo.userId
  \/ HasEmail(info) /\ info.email = acc.accountInfo.email

\* C7 - addAccount merges only on a user id or email match: adding a
\* credential that shares nothing but the account id with the stored
\* accounts creates a new account and leaves the existing records as they
\* were.
C7_NoMergeOnAccountIdOnly ==
  [][LET c == last'.arg IN
       ( /\ AddStep /\ last'.ok
         /\ \E i \in 1..Len(accounts) :
              accounts[i].accountInfo.accountId = parseAccountInfo(c).accountId
         /\ \A i \in 1..Len(accounts) :
              ~SharesUserOrEmail(parseAccountInfo(c), accounts[i]) )
       => ( /\ last'.kind = "new"
            /\ Len(accounts') = Len(accounts) + 1
            /\ \A i \in 1..Len(accounts) : accounts'[i] = accounts[i] )]_vars

\* C8 - Merge idempotence: a second addAccount with a credential of the same
\* identity as the one just added leaves the number of accounts unchanged,
\* and the record carries the profile and the timestamp of the second call.
C8_MergeIdempotent ==
  [][LET c == last'.arg IN
       ( /\ AddStep /\ last'.ok
         /\ last.op = "add" /\ last.ok /\ SameIdentity(last.arg, c) )
       => ( /\ Len(accounts') = Len(accounts)
            /\ last'.ret = last.ret
            /\ RecordOf(accounts', last'.ret).accountInfo = parseAccountInfo(c)
            /\ RecordOf(accounts', last'.ret).updatedAt = clock )]_vars

\* The second of two adds with the same identity merged, after time had passed.
C8_Witness ==
  /\ last.op = "add" /\ last.ok /\ last.rep
  /\ last.kind = "merge"
  /\ RecordOf(accounts, last.ret).updatedAt = MaxClock
  /\ RecordOf(accounts, last.ret).accountInfo = parseAccountInfo(last.arg)

\* C9 - When addAccount matches an existing account it allocates no id: the
\* stored ids are unchanged, the record's accountInfo is the new profile,
\* and the new secret is stored under the existing id and under no other.
C9_MergeAllocatesNoId ==
  [][LET c == last'.arg IN
       (AddStep /\ last'.ok /\ last'.kind = "merge")
       => ( /\ last'.ret \in IdsOf(accounts)
            /\ IdsOf(accounts') = IdsOf(accounts)
            /\ Len(accounts') = Len(accounts)
            /\ nextId' = nextId
            /\ RecordOf(accounts', last'.ret).accountInfo = parseAccountInfo(c)
            /\ authStore'[last'.ret] = Secret(c)
            /\ \A k \in Ids \ {last'.ret} : authStore'[k] = authStore[k] )]_vars

\* Scenario A: a merge gave an existing account the email x@y.com.
C9_Witness ==
  /\ last.op = "add" /\ last.ok /\ last.kind = "merge"
  /\ Len(accounts) = 2
  /\ RecordOf(accounts, last.ret).accountInfo.email = "x@y.com"
  /\ RecordOf(accounts, last.ret).accountInfo.userId = "U1"
  /\ authStore[last.ret] = Secret(last.arg)

\* C10 - First-account auto-activation: a newly created account is active
\* exactly when the store held no accounts; added to a non-empty store it is
\* inactive and the existing active flags are unchanged.
C10_FirstAccountAutoActivation ==
  [][LET c == last'.arg IN
       (AddStep /\ last'.ok /\ last'.kind = "new")
       => ( /\ Len(accounts') = Len(accounts) + 1
            /\ accounts'[Len(accounts')].id = last'.ret
            /\ accounts'[Len(accounts')].isActive <=> (Len(accounts) = 0)
            /\ \A i \in 1..Len(accounts) :
                 accounts'[i].isActive = accounts[i].isActive )]_vars

\* A second account was created inactive next to the active first one.
C10_Witness ==
  /\ last.op = "add" /\ last.ok /\ last.kind = "new"
  /\ Len(accounts) = 2
  /\ accounts[1].isActive /\ ~accounts[2].isActive
  /\ accounts[2].id = last.ret

\* C11 - Scenario C: addAccount on a credential whose id_token does not
\* decode and whose payload carries no account id fails with
\* MissingAccountIdentity, and neither the persisted store nor the
\* per-account secrets change.
C11_ScenarioC ==
  [][LET c == last'.arg IN
       (AddStep /\ parseThrows(c) /\ c.tok = "")
       => ( /\ ~last'.ok
            /\ last'.kind = "MissingAccountIdentity"
            /\ accounts' = accounts /\ storeExists' = storeExists
            /\ authStore' = authStore )]_vars

\* The step is a removeAccount (switchToAccount) call; its argument is
\* last'.id.
RemoveStep == last'.op = "remove" /\ clock' = clock
SwitchStep == last'.op = "switch" /\ clock' = clock

C13_RemoveFrame ==
  [][(RemoveStep /\ last'.ok)
       => LET id == last'.id IN
          /\ id \notin IdsOf(accounts')
          /\ ~authStore'[id].has
          /\ IdsOf(accounts') = IdsOf(accounts) \ {id}
          /\ Len(accounts') = Cardinality(IdsOf(accounts'))
          /\ \A k \in IdsOf(accounts') :
               RecordOf(accounts', k) = RecordOf(accounts, k)
          /\ \A k \in Ids \ {id} : authStore'[k] = authStore[k] ]_vars

\* One of two accounts was removed: its secret is gone, the other account
\* and its secret are still there.
C13_Witness ==
  /\ last.op = "remove" /\ last.ok /\ last.kind # "absent"
  /\ Len(accounts) = 1
  /\ ~authStore[last.id].has
  /\ authStore[accounts[1].id].has

\* C14 - removeAccount with an id that no stored account has raises
\* AccountNotFound to the caller.
C14_RemoveUnknownRaises ==
  (last.op = "remove" /\ last.kind = "absent") => ~last.ok

\* C15 - switchToAccount with an id that no stored account has fails with
\* the account-not-found error and changes nothing: auth.json is not
\* written, no isActive flag changes, no secret changes.
C15_SwitchUnknown ==
  [][(SwitchStep /\ last'.id \notin IdsOf(accounts))
       => ( /\ ~last'.ok /\ last'.kind = AccountNotFoundError
            /\ ~last'.saved
            /\ codexAuth' = codexAuth
            /\ accounts' = accounts /\ storeExists' = storeExists
            /\ authStore' = authStore )]_vars

\* A switch to an unknown id failed while an account was active and
\* auth.json held a credential.
C15_Witness ==
  /\ last.op = "switch" /\ ~last.ok /\ last.kind = AccountNotFoundError
  /\ last.id \notin IdsOf(accounts)
  /\ ActiveIds(accounts) # {}
  /\ codexAuth.st = "ok"

\* C16 - After switchToAccount(id) completes, auth.json holds exactly the
\* secret the backend keeps for id, and in the persisted store the account
\* id is active and every other account is inactive.
C16_SwitchPostcondition ==
  (last.op = "switch" /\ last.ok)
    => ( /\ authStore[last.id].has
         /\ codexAuth = [st |-> "ok", cred |-> authStore[last.id].cred]
         /\ last.id \in IdsOf(accounts)
         /\ \A i \in 1..Len(accounts) :
              accounts[i].isActive <=> (accounts[i].id = last.id) )

\* A switch moved the active flag from the first account to the second.
C16_Witness ==
  /\ last.op = "switch" /\ last.ok /\ last.saved
  /\ Len(accounts) = 2
  /\ accounts[2].id = last.id /\ accounts[2].isActive /\ ~accounts[1].isActive
  /\ codexAuth.cred = authStore[last.id].cred

\* C17 - Switch is never partially applied: in no reachable state, between
\* the steps of switchToAccount or after one of them failed, does auth.json
\* hold the secret the switch wrote for an account while the persisted
\* store does not mark that account active.
C17_SwitchNeverPartial ==
  ( /\ last.op \in {"switching", "switch"} /\ last.kind = "written"
    /\ codexAuth = [st |-> "ok", cred |-> authStore[last.id].cred] )
  => \E i \in ActiveIds(accounts) : accounts[i].id = last.id

\* C18 - Loading the store distinguishes two failures: when the backend
\* reports that the store file does not exist, loadAccountsStore returns
\* the empty default store without error (and saves nothing); when the
\* content is malformed or the load fails otherwise, it throws.
C18_LoadFailures ==
  (last.op = "load")
    => /\ last.kind = "notfound"
            => (last.ok /\ returned = NothingReturned /\ ~last.saved)
       /\ last.kind \in {"malformed", "error"} => ~last.ok

\* A load threw on a store file that is not JSON, after an earlier load of
\* the same file had returned its two accounts.
C18_Witness ==
  /\ last.op = "load" /\ last.kind = "malformed" /\ ~last.ok
  /\ storeExists
  /\ Len(returned.accts) = 2

\* The step is a loadAccountsStore call.
LoadStep == last'.op = "load" /\ clock' = clock

\* C19 - Legacy migration on load: a load that reads the file stores the
\* embedded secret of every record under the record's id, returns the
\* records without embedded secrets, and re-saves the store (without them)
\* exactly when some record embedded one; a load that directly follows a
\* completed load performs no save.
C19_LegacyMigration ==
  [][(LoadStep /\ last'.ok /\ last'.kind = "data")
       => ( /\ \A i \in 1..Len(accounts) :
                 embedded[accounts[i].id].has
                   => authStore'[accounts[i].id] = embedded[accounts[i].id]
            /\ returned'.accts = accounts
            /\ returned'.emb = NoEmbedded
            /\ last'.saved <=> (\E i \in 1..Len(accounts) : embedded[accounts[i].id].has)
            /\ last'.saved => (embedded' = NoEmbedded /\ accounts' = accounts)
            /\ (last.op = "load" /\ last.ok) => ~last'.saved )]_vars

\* A load migrated the secrets of two legacy records and re-saved the store.
C19_Witness ==
  /\ last.op = "load" /\ last.ok /\ last.saved
  /\ Len(accounts) = 2
  /\ \A i \in 1..Len(accounts) : authStore[accounts[i].id].has
  /\ embedded = NoEmbedded

\* C20 - Account ids are unique: after any sequence of addAccount,
\* removeAccount, switchToAccount and syncCurrentAccount calls no two
\* accounts of the persisted store have the same id.
C20_UniqueIds ==
  \A i, j \in 1..Len(accounts) : i # j => accounts[i].id # accounts[j].id

\* C21 - Setting the auto-refresh interval to 0 disables automatic refresh:
\* while config.autoRefreshInterval is 0 no interval timer is live and no
\* call of refreshAllUsage comes from the timer, also when the interval was
\* positive before and a timer had been armed.
C21_ZeroDisablesAutoRefresh ==
  (autoRefreshInterval = 0)
    => (intervalRef = 0 /\ last.op # "timerRefreshAll")

\* The interval was set to 0 while accounts were listed and a refresh
\* started by the timer was still under way.
C21_Witness ==
  /\ autoRefreshInterval = 0 /\ last.op = "config"
  /\ Len(uiAccounts) = 2
  /\ \E r \in 1..Len(running) : running[r].by = "timerRefreshAll"

\* The highest rank an identity reaches against any identity.
MaxRankOf(a) ==
  CHOOSE m \in 0..5 :
    /\ \E b \in Identities : rank(a, b) = m
    /\ \A b \in Identities : rank(a, b) <= m

\* C22 - Rank symmetry: the rank of (a, b) equals the rank of (b, a), and a
\* non-empty identity ranked against itself gets the highest rank its
\* populated fields can reach.
C22_RankSymmetry ==
  (rankResult # NoRank)
    => ( /\ rankResult.ab = rankResult.ba
         /\ rankArgs[1] # NoIdentity => rankResult.aa = MaxRankOf(rankArgs[1]) )

\* Two identities sharing only the user id were ranked 3 both ways round.
C22_Witness ==
  /\ rankResult # NoRank
  /\ rankResult.ab = 3 /\ rankResult.ba = 3
  /\ rankArgs[1] # rankArgs[2]
  /\ rankResult.aa = 5

\* The stored accounts that tie against the observed account id: they carry
\* it and agree with one another on the whole profile.
TiedAccounts(store, currentAccountId) ==
  LET M == {i \in 1..Len(store) : store[i].accountInfo.accountId = currentAccountId}
  IN  IF \A i, j \in M : store[i].accountInfo = store[j].accountInfo
        THEN M ELSE {}

\* C23 - Sync tie-break: when several stored accounts tie at the best match
\* against the observed identity, sync leaves exactly one of them active:
\* one that was active already if there is one, otherwise one with the
\* largest updatedAt.
C23_SyncTieBreak ==
  [][ ( /\ last'.op = "sync" /\ last'.ok
        /\ last'.cur # NoIdent
        /\ Cardinality(TiedAccounts(accounts, last'.cur)) >= 2 )
      => LET T == TiedAccounts(accounts, last'.cur)
         IN  \E t \in T :
               /\ accounts'[t].isActive
               /\ \A u \in T \ {t} : ~accounts'[u].isActive
               /\ IF \E a \in T : accounts[a].isActive
                    THEN accounts[t].isActive
                    ELSE \A u \in T : accounts[u].updatedAt <= accounts[t].updatedAt
    ]_vars

\* The step completes the final save of the call in slot k.
SaveStep(k) == calls[k].pc = "save" /\ calls'[k].pc = "idle"

\* C24 - Lost update: when a call saves a store it loaded from the file
\* before another call's save, the file afterwards holds what the call
\* loaded plus its own change: the accounts and the usage the other call had
\* written are gone, and the call returns normally.
C24_LostUpdate ==
  [][ \A k \in Slots :
        ( /\ SaveStep(k)
          /\ ~calls[k].alias )
        => /\ last'.ok
           /\ \A id \in IdsOf(accounts) :
                (id \in IdsOf(accounts')) => (id \in IdsOf(calls[k].snap.accts))
           /\ \A id \in Ids :
                (usage[id] = 1 /\ calls[k].snap.usage[id] = 0 /\ calls[k].id # id)
                  => usage'[id] = 0
    ]_vars

\* An addAccount and an updateUsage overlapped and both returned normally:
\* the account the first added is in the UI list and has its secret, but the
\* file, written last by the second, does not hold it.
C24_Witness ==
  /\ \A k \in Slots : calls[k].op = "idle"
  /\ last.op = "usage" /\ last.ok /\ last.saved
  /\ \E id \in IdsOf(uiAccounts) :
       id \notin IdsOf(accounts) /\ authStore[id].has

\* C25 - Switch followed by sync is stable: after a successful
\* switchToAccount(id), with auth.json untouched by anyone else, the next
\* syncCurrentAccount returns id, leaves id the only active account and does
\* not save, whatever credential the account was added with.
C25_SwitchThenSync ==
  [][ ( /\ last.op = "switch" /\ last.ok
        /\ last'.op = "sync" )
      => ( /\ last'.ok
           /\ last'.ret = last.id
           /\ ~last'.saved
           /\ {accounts'[i].id : i \in ActiveIds(accounts')} = {last.id} )
    ]_vars

C27_SingleActiveInterleaved ==
  AtMostOneActive(accounts) /\ AtMostOneActive(uiAccounts)

\* The id of the persisted active account, null when there is none.
PersistedActiveId ==
  IF ActiveIds(accounts) = {} THEN Null
  ELSE accounts[CHOOSE i \in ActiveIds(accounts) : TRUE].id

\* C28 - The UI store mirrors the persisted active account: after each UI
\* action (loadAccounts, addAccount, removeAccount, switchToAccount,
\* syncCurrentAccount), run one at a time, has returned normally,
\* activeAccountId is the id of the persisted active account, and null when
\* no account is active.
C28_UiMirrorsActive ==
  (hasLoaded /\ last.ok /\ last.op \in {"sync", "add", "remove", "switch"})
    => ( /\ Cardinality(ActiveIds(accounts)) <= 1
         /\ activeAccountId = PersistedActiveId )

\* C29 - updateConfig changes only the configuration: the persisted accounts
\* after the call are the persisted accounts before it.
C29_ConfigOnly ==
  [][ (last'.op = "config") => (accounts' = accounts) ]_vars

\* The step is a call of refreshAllUsage or refreshSingleAccount.
RefreshCall == last'.op \in {"timerRefreshAll", "refreshAll", "refreshSingle"}

\* C30 - Usage refreshes are mutually exclusive: at most one run of
\* refreshAllUsage or refreshSingleAccount is in progress; a call made while
\* a run is in flight returns skipped without fetching or storing usage; and
\* the end of a run, normal or by an exception, clears the in-flight guard.
C30_RefreshExclusive ==
  [][ /\ Len(running') <= 1
      /\ (RefreshCall /\ running # <<>>)
           => ( /\ last'.kind = "skipped"
                /\ running' = running
                /\ usage' = usage /\ accounts' = accounts )
      /\ (last'.op = "refreshEnd" /\ Len(running') < Len(running))
           => ~isRefreshingRef'
    ]_vars

\* While the pass started by the timer is in flight a refresh of a single
\* account was asked for and skipped.
C30_Witness ==
  /\ last.op = "refreshSingle" /\ last.kind = "skipped"
  /\ Len(running) = 1
  /\ running[1].by = "timerRefreshAll"
  /\ isRefreshingRef

====
